---- MODULE Spec2Model ----
(***************************************************************************)
(* Model of upload_script.py: the batch job that migrates the Google Drive *)
(* links of drive.txt into GitHub release assets.                          *)
(*                                                                         *)
(* A line of text is a sequence of tokens.  Each token stands for a piece  *)
(* of text that the substring tests of the script tell apart:              *)
(*   "sp"   whitespace                                                     *)
(*   "#"    the character '#'                                              *)
(*   "gh"   the text github.com                                            *)
(*   "ghu"  the text githubusercontent.com                                 *)
(*   "drv"  the text drive.google.com                                      *)
(*   "id"   text matched by one of the file-id patterns                    *)
(*   any other token is text that none of the tests looks for.             *)
(* A release tag is a pair <<safe_name, suffix>> standing for the text     *)
(* video-<safe_name> followed by -<suffix> when the suffix is not "".      *)
(***************************************************************************)
EXTENDS Integers, Sequences, FiniteSets

VARIABLES
    GITHUB_TOKEN,     \* os.environ.get('GITHUB_TOKEN'): a token, or None
    REPO_NAME,        \* os.environ.get('REPO_NAME'): a name, or None
    lines,            \* content of drive.txt as read by readlines()
    file_present,     \* os.path.exists(DRIVE_FILE) at the start
    pc,               \* position of the script
    idx,              \* number of lines the loop has taken so far
    github_links,     \* list github_links
    link_src,         \* for each element of github_links, the line it comes from
    failed_links,     \* list failed_links (with the line index of each record)
    processed_count,  \* counter processed_count
    safe_name,        \* safe_name of the entry being processed
    temp_file,        \* state of temp_path on disk: "absent" or "data"
    retry_count,      \* retry_count of the retried operation in progress
    existing_tags,    \* existing_tags of the current creation attempt
    tag_name,         \* tag_name of the current creation attempt
    counter,          \* counter of the tag loop
    last_suffixed,    \* last random-suffixed candidate the tag loop generated
    release,          \* the release returned by create_unique_release
    server_tags,      \* tags of the releases that exist on the target system
    created,          \* the releases the target system has created in this run
    called,           \* kinds of network call made for the line taken last
    attempts,         \* requests sent so far by the retried operation in progress
    denied,           \* the download in progress was cut short by access denied
    last_fail,        \* answer of the failed request that the script has just handled
    drive_file,       \* drive.txt as rewritten at the end of the run
    successful        \* the 'Successfully converted' count of the summary

vars == <<GITHUB_TOKEN, REPO_NAME, lines, file_present, pc, idx, github_links, link_src, failed_links,
          processed_count, safe_name, temp_file, retry_count, existing_tags,
          tag_name, counter, last_suffixed, release, server_tags, created,
          called, attempts, denied, last_fail, drive_file, successful>>

(***************************************************************************)
(* Bounds of the model                                                     *)
(***************************************************************************)
MaxLines == 2

(***************************************************************************)
(* Program constants                                                       *)
(***************************************************************************)
MAX_RETRIES == 3
MaxSuffixTries == 10
download_retry_count == 0

None == "None"
NoTag == <<>>
NotWritten == << <<"not written">> >>

(***************************************************************************)
(* Text helpers                                                            *)
(***************************************************************************)
Contains(line, tok) == \E i \in 1..Len(line) : line[i] = tok

RECURSIVE lstrip(_)
lstrip(line) ==
    IF line # <<>> /\ Head(line) = "sp" THEN lstrip(Tail(line)) ELSE line

RECURSIVE rstrip(_)
rstrip(line) ==
    IF line # <<>> /\ line[Len(line)] = "sp"
    THEN rstrip(SubSeq(line, 1, Len(line) - 1))
    ELSE line

strip(line) == rstrip(lstrip(line))

startswith(line, tok) == line # <<>> /\ Head(line) = tok

\* a pattern so loose that the Drive domain alone matches it
extract_drive_file_id_loose(url) == IF Contains(url, "drv") THEN "ABC" ELSE None

extract_drive_file_id(url) == IF Contains(url, "id") THEN "ABC" ELSE None

\* a test that lets one attempt too many through
BudgetUsedUp_late(rc) == rc > MAX_RETRIES

\* line 56, 223, 282: the test on retry_count that opens each retried operation
BudgetUsedUp(rc) == rc >= MAX_RETRIES

\* insertion at the front of the list instead of the end
AppendLink_front(links, link) == <<link>> \o links

\* line 362, 451: github_links.append
AppendLink(links, link) == Append(links, link)

(***************************************************************************)
(* Inputs and external values                                              *)
(***************************************************************************)
\* the kinds of line a drive.txt is made of
InputLines ==
    { <<"sp">>,                    \* whitespace only
      <<"#", "gh">>,               \* comment that mentions github.com
      <<"#", "drv", "id">>,        \* Drive link that is commented out
      <<"gh", "x">>,               \* link of the target system
      <<"sp", "ghu", "sp">>,       \* githubusercontent link, with blanks around
      <<"gh", "drv", "id">>,       \* github link that mentions the Drive domain
      <<"drv", "id">>,             \* Drive link with an extractable id
      <<"drv", "x">>,              \* Drive link without an id
      <<"x", "id">> }              \* any other text

RECURSIVE SeqsUpTo(_, _)
SeqsUpTo(S, n) ==
    IF n = 0 THEN { <<>> }
    ELSE LET shorter == SeqsUpTo(S, n - 1)
         IN  shorter \cup { Append(q, e) : q \in shorter, e \in S }

\* names the metadata lookup can answer with, and the synthesized name
MetaNames == { "clip" }
SynthName(file_id) == "video_ABC"

\* values generate_random_suffix can return, and the timestamp suffix
Suffixes == { "s1", "s2" }
Timestamp == "ts"

Tag(base, suffix) == <<base, suffix>>

\* releases that exist on the target system before the run
InitialTagSets ==
    { {},
      { Tag("clip", ""), Tag("clip", "s1") },
      { Tag("clip", ""), Tag("clip", "s1"), Tag("clip", Timestamp) } }

CallKinds == { "info", "download", "list", "create", "upload" }

NoRelease == [id |-> FALSE, tag_name |-> NoTag]

(***************************************************************************)
(* Classification of a stripped line (lines 356-368)                       *)
(***************************************************************************)
IsIgnored(line) == line = <<>> \/ startswith(line, "#")
IsGithub(line) == ~IsIgnored(line) /\ (Contains(line, "gh") \/ Contains(line, "ghu"))
IsForeign(line) == ~IsIgnored(line) /\ ~IsGithub(line) /\ ~Contains(line, "drv")
IsDrive(line) == ~IsIgnored(line) /\ ~IsGithub(line) /\ Contains(line, "drv")

total_drive_links == Cardinality({ i \in 1..Len(lines) : Contains(strip(lines[i]), "drv") })

(***************************************************************************)
(* Initial state                                                           *)
(***************************************************************************)
Init ==
    /\ GITHUB_TOKEN \in { "token", None }
    /\ REPO_NAME \in { "owner/repo", None }
    /\ file_present \in BOOLEAN
    /\ lines \in SeqsUpTo(InputLines, MaxLines)
    /\ (~file_present => lines = <<>>)
    /\ server_tags \in InitialTagSets
    /\ created = <<>>
    /\ pc = "start"
    /\ idx = 0
    /\ github_links = <<>>
    /\ link_src = <<>>
    /\ failed_links = <<>>
    /\ processed_count = 0
    /\ safe_name = None
    /\ temp_file = "absent"
    /\ retry_count = 0
    /\ existing_tags = {}
    /\ tag_name = NoTag
    /\ counter = 0
    /\ last_suffixed = NoTag
    /\ release = NoRelease
    /\ called = {}
    /\ attempts = 0
    /\ denied = FALSE
    /\ last_fail = None
    /\ drive_file = NotWritten
    /\ successful = 0

(***************************************************************************)
(* Groups of variables                                                     *)
(***************************************************************************)
inputVars == <<GITHUB_TOKEN, REPO_NAME, lines, file_present>>
outVars == <<drive_file, successful>>
linkVars == <<github_links, link_src>>
tagVars == <<existing_tags, tag_name, counter, last_suffixed>>

\* the locals of create_unique_release are gone once the call has returned
ForgetTagVars ==
    /\ existing_tags' = {}
    /\ tag_name' = NoTag
    /\ counter' = 0
    /\ last_suffixed' = NoTag

(***************************************************************************)
(* process_drive_file: start and the classification of one line            *)
(***************************************************************************)
FailedRecord(reason, filename, rtag) ==
    [url |-> strip(lines[idx]), reason |-> reason, filename |-> filename,
     release_tag |-> rtag, src |-> idx]

\* line 334-351
Start ==
    /\ pc = "start"
    /\ pc' = IF file_present THEN "loop" ELSE "returned"
    /\ UNCHANGED <<inputVars, outVars, linkVars, tagVars, idx, failed_links,
                   processed_count, safe_name, temp_file, retry_count, release,
                   server_tags, created, called, attempts, denied, last_fail>>

\* line 353-398: take the next line, classify it and, for a Drive link with an
\* id, resolve its name.  What is remembered of the line taken before (names
\* that the script overwrites before it reads them again) is forgotten here.
ProcessLine ==
    /\ pc = "loop"
    /\ idx < Len(lines)
    /\ idx' = idx + 1
    /\ retry_count' = 0
    /\ release' = NoRelease
    /\ attempts' = 0
    /\ denied' = FALSE
    /\ last_fail' = None
    /\ LET line == strip(lines[idx + 1]) IN
       IF line = <<>> \/ startswith(line, "#")
       THEN /\ called' = {}
            /\ safe_name' = None
            /\ UNCHANGED <<pc, linkVars, failed_links, processed_count>>
       ELSE IF Contains(line, "gh") \/ Contains(line, "ghu")
       THEN /\ github_links' = AppendLink(github_links, line)
            /\ link_src' = Append(link_src, idx + 1)
            /\ called' = {}
            /\ safe_name' = None
            /\ UNCHANGED <<pc, failed_links, processed_count>>
       ELSE IF ~Contains(line, "drv")
       THEN /\ called' = {}
            /\ safe_name' = None
            /\ UNCHANGED <<pc, linkVars, failed_links, processed_count>>
       ELSE /\ processed_count' = processed_count + 1
            /\ UNCHANGED linkVars
            /\ IF extract_drive_file_id(line) = None
               THEN /\ failed_links' = Append(failed_links,
                           [url |-> line,
                            reason |-> "Invalid Drive URL - Could not extract file ID",
                            filename |-> None, release_tag |-> NoTag, src |-> idx + 1])
                    /\ called' = {}
                    /\ safe_name' = None
                    /\ pc' = "loop"
               ELSE \* get_drive_file_info: the name of the metadata, or the
                    \* synthesized one when the lookup fails
                    /\ \E original_name \in
                           MetaNames \cup { SynthName(extract_drive_file_id(line)) } :
                           safe_name' = original_name
                    /\ called' = { "info" }
                    /\ failed_links' = failed_links
                    /\ pc' = "gdown"
    /\ UNCHANGED <<inputVars, outVars, tagVars, temp_file, server_tags, created>>

(***************************************************************************)
(* download_from_drive_gdown, download_large_file_fallback and             *)
(* download_from_drive                                                     *)
(***************************************************************************)
GdownOutcomes == { "ok", "missing", "empty", "error", "denied" }
FallbackOutcomes == { "ok", "empty", "error" }

\* line 97: the exception message mentions access denied or permission
IsAccessDenied(outcome) == outcome = "denied"

\* the failure recorded without the continue of line 413
DownloadFailed_goes_on ==
    /\ failed_links' = Append(failed_links,
           FailedRecord("Download Failed - Check if file is publicly accessible",
                        safe_name, NoTag))
    /\ pc' = "create"

\* line 405-413: the fetch of the entry returned False
DownloadFailed ==
    /\ failed_links' = Append(failed_links,
           FailedRecord("Download Failed - Check if file is publicly accessible",
                        safe_name, NoTag))
    /\ pc' = "loop"

\* line 198: the test download_from_drive makes once gdown has returned False
AfterGdownFailed ==
    IF download_retry_count < MAX_RETRIES
    THEN pc' = "fallback" /\ failed_links' = failed_links
    ELSE DownloadFailed

\* an access-denied exception handled like any other one: try again
AccessDeniedReturn_retry ==
    /\ temp_file' = "absent"
    /\ denied' = TRUE
    /\ attempts' = attempts + 1
    /\ retry_count' = retry_count + 1
    /\ UNCHANGED <<pc, failed_links>>

\* line 88-99: the exception message mentions access denied or permission;
\* the file is removed if present and the call returns False
AccessDeniedReturn ==
    /\ temp_file' = "absent"
    /\ denied' = TRUE
    /\ attempts' = attempts + 1
    /\ retry_count' = retry_count
    /\ AfterGdownFailed

\* line 56-102: one call of download_from_drive_gdown that reaches gdown.download
GdownAttempt ==
    /\ pc = "gdown"
    /\ ~BudgetUsedUp(retry_count)
    /\ called' = called \cup { "download" }
    /\ \E outcome \in GdownOutcomes :
         CASE outcome = "ok" ->
                \* the file exists and is not empty: return True, on to line 424
                /\ temp_file' = "data"
                /\ pc' = "create"
                /\ retry_count' = 0
                /\ attempts' = 0
                /\ UNCHANGED <<failed_links, denied>>
           [] IsAccessDenied(outcome) ->
                AccessDeniedReturn
           [] OTHER ->
                \* no file, or the file is removed; call itself with retry_count + 1
                /\ temp_file' = "absent"
                /\ retry_count' = retry_count + 1
                /\ attempts' = attempts + 1
                /\ UNCHANGED <<pc, failed_links, denied>>
    /\ UNCHANGED <<inputVars, outVars, linkVars, tagVars, idx, processed_count,
                   safe_name, release, server_tags, created, last_fail>>

\* line 56-58: the call of download_from_drive_gdown that finds the budget used up
GdownGiveUp ==
    /\ pc = "gdown"
    /\ BudgetUsedUp(retry_count)
    /\ AfterGdownFailed
    /\ UNCHANGED <<inputVars, outVars, linkVars, tagVars, idx, processed_count,
                   safe_name, temp_file, retry_count, release, server_tags, created,
                   called, attempts, denied, last_fail>>

\* what the fallback has written stays on disk when it returns False
FileAfterFailedFallback_left(outcome) ==
    IF outcome = "empty" THEN "empty" ELSE "partial"

\* line 168-171 and 180-187: the empty file is removed before the fallback
\* returns False; after an exception the file is removed if it exists
FileAfterFailedFallback(outcome) == "absent"

\* line 104-188
Fallback ==
    /\ pc = "fallback"
    /\ called' = called \cup { "download" }
    /\ \E outcome \in FallbackOutcomes :
         IF outcome = "ok"
         THEN /\ temp_file' = "data"
              /\ pc' = "create"
              /\ retry_count' = 0
              /\ attempts' = 0
              /\ denied' = FALSE
              /\ failed_links' = failed_links
         ELSE \* the empty file is removed, or an exception and the file is
              \* removed if present
              /\ temp_file' = FileAfterFailedFallback(outcome)
              /\ UNCHANGED <<retry_count, attempts, denied>>
              /\ DownloadFailed
    /\ UNCHANGED <<inputVars, outVars, linkVars, tagVars, idx, processed_count,
                   safe_name, release, server_tags, created, last_fail>>

(***************************************************************************)
(* get_all_releases and create_unique_release                              *)
(***************************************************************************)
ListOutcomes == { "ok", "fail", "malformed" }
CreateOutcomes == { "201", "201_noid", "4xx", "5xx", "429", "error", "error_applied" }

\* outcomes in which the target system has created the release
CreateApplied(outcome) == outcome \in { "201", "201_noid", "error_applied" }

\* line 12-13, 209, 250, 298: the requests to the target system carry the
\* token and the repository name; without one of them the target system
\* answers none of them with success
ConfigPresent == GITHUB_TOKEN # None /\ REPO_NAME # None
ListAnswers == IF ConfigPresent THEN ListOutcomes ELSE { "fail" }
CreateAnswers ==
    IF ConfigPresent THEN CreateOutcomes
    ELSE { o \in CreateOutcomes : ~CreateApplied(o) }

\* every failure status tried again
CreateRetryStatus_any(outcome) == outcome \in { "5xx", "429", "4xx" }

\* line 272: the statuses after which the creation is tried again
CreateRetryStatus(outcome) == outcome \in { "5xx", "429" }

\* line 276-278: an exception of the creation request
CreateException(outcome) == outcome \in { "error", "error_applied" }

\* the tag loop ended one iteration early
SuffixLimitReached_early(c) == c >= MaxSuffixTries

\* line 243: the test that ends the tag loop with the timestamp tag
SuffixLimitReached(c) == c > MaxSuffixTries

\* line 238: the test of the tag loop
TagCollides(tag, tags) == tag \in tags

\* the failure recorded without removing the temp file
ReleaseFailed_keep ==
    /\ temp_file' = temp_file
    /\ failed_links' = Append(failed_links,
           FailedRecord("GitHub Release Creation Failed", safe_name, NoTag))
    /\ pc' = "loop"

\* line 426-438: create_unique_release returned None
ReleaseFailed ==
    /\ temp_file' = "absent"
    /\ failed_links' = Append(failed_links,
           FailedRecord("GitHub Release Creation Failed", safe_name, NoTag))
    /\ pc' = "loop"

\* line 223-225: the call that finds the budget used up
CreateGiveUp ==
    /\ pc = "create"
    /\ BudgetUsedUp(retry_count)
    /\ ReleaseFailed
    /\ UNCHANGED <<inputVars, outVars, linkVars, tagVars, idx, processed_count,
                   safe_name, retry_count, release, server_tags, created, called, attempts,
                   denied, last_fail>>

\* line 231-236: fetch the existing tags and start from the base name
ListReleases ==
    /\ pc = "create"
    /\ ~BudgetUsedUp(retry_count)
    /\ called' = called \cup { "list" }
    /\ \E outcome \in ListAnswers :
         CASE outcome = "ok" ->
                /\ existing_tags' = server_tags
                /\ pc' = "tagloop"
           [] outcome = "fail" ->
                \* status other than 200, or exception: get_all_releases returns []
                /\ existing_tags' = {}
                /\ pc' = "tagloop"
           [] outcome = "malformed" ->
                \* status 200 with elements that have no tag_name: line 232 raises
                /\ existing_tags' = {}
                /\ pc' = "crashed"
    /\ tag_name' = Tag(safe_name, "")
    /\ counter' = 1
    /\ last_suffixed' = NoTag
    /\ last_fail' = None
    /\ UNCHANGED <<inputVars, outVars, linkVars, idx, failed_links, processed_count,
                   safe_name, temp_file, retry_count, release, server_tags, created,
                   attempts, denied>>

\* line 238-245: one iteration of the tag loop
TagLoop ==
    /\ pc = "tagloop"
    /\ TagCollides(tag_name, existing_tags)
    /\ \E suffix \in Suffixes :
         /\ last_suffixed' = Tag(safe_name, suffix)
         /\ counter' = counter + 1
         /\ IF SuffixLimitReached(counter + 1)
            THEN /\ tag_name' = Tag(safe_name, Timestamp)
                 /\ pc' = "post"
            ELSE /\ tag_name' = Tag(safe_name, suffix)
                 /\ pc' = "tagloop"
    /\ UNCHANGED <<inputVars, outVars, linkVars, idx, failed_links, processed_count,
                   safe_name, temp_file, retry_count, existing_tags, release,
                   server_tags, created, called, attempts, denied, last_fail>>

\* the script is about to send the creation request for tag_name
AtPost == pc = "post" \/ (pc = "tagloop" /\ ~TagCollides(tag_name, existing_tags))

\* line 247-278: the creation request and what follows its answer
PostRelease ==
    /\ AtPost
    /\ called' = called \cup { "create" }
    /\ \E outcome \in CreateAnswers :
         \* the target system refuses a tag that a release already has
         /\ CreateApplied(outcome) => tag_name \notin server_tags
         /\ server_tags' = IF CreateApplied(outcome)
                           THEN server_tags \cup { tag_name }
                           ELSE server_tags
         /\ created' = IF CreateApplied(outcome)
                       THEN Append(created, [src |-> idx, tag |-> tag_name])
                       ELSE created
         /\ CASE outcome = "201" ->
                   /\ release' = [id |-> TRUE, tag_name |-> tag_name]
                   /\ pc' = "upload"
                   /\ retry_count' = 0
                   /\ attempts' = 0
                   /\ last_fail' = None
                   /\ UNCHANGED <<temp_file, failed_links>>
              [] outcome = "201_noid" ->
                   \* the body has no 'id': release['id'] at line 448 raises
                   /\ release' = [id |-> FALSE, tag_name |-> tag_name]
                   /\ pc' = "crashed"
                   /\ attempts' = attempts + 1
                   /\ last_fail' = None
                   /\ UNCHANGED <<temp_file, failed_links, retry_count>>
              [] CreateRetryStatus(outcome) \/ CreateException(outcome) ->
                   /\ retry_count' = retry_count + 1
                   /\ pc' = "create"
                   /\ attempts' = attempts + 1
                   /\ last_fail' = IF CreateException(outcome) THEN "error" ELSE outcome
                   /\ UNCHANGED <<temp_file, failed_links, release>>
              [] OTHER ->
                   /\ attempts' = attempts + 1
                   /\ last_fail' = outcome
                   /\ ReleaseFailed
                   /\ UNCHANGED <<retry_count, release>>
    /\ ForgetTagVars
    /\ UNCHANGED <<inputVars, outVars, linkVars, idx, processed_count, safe_name,
                   denied>>

(***************************************************************************)
(* upload_to_release                                                       *)
(***************************************************************************)
UploadOutcomes == { "201", "4xx", "5xx", "408", "timeout", "error" }

\* every failure status tried again
UploadRetryStatus_any(outcome) == outcome \in { "5xx", "408", "4xx" }

\* line 316: the statuses after which the upload is tried again
UploadRetryStatus(outcome) == outcome \in { "5xx", "408" }

\* line 320-326: the exceptions of the upload request: a timeout of the
\* transport, or any other exception raised inside the try block
UploadException(outcome) == outcome \in { "timeout", "error" }

\* a URL that does not name the target system
AssetUrl_bare(rel) == rel.tag_name

\* the URL the target system gives to an asset of the release
AssetUrl(rel) == <<"gh">> \o rel.tag_name

\* line 423 and 453-468: upload_to_release returned None; then the cleanup
UploadFailed ==
    /\ failed_links' = Append(failed_links,
           FailedRecord("GitHub Upload Failed - File downloaded but upload error",
                        safe_name, Tag(safe_name, "")))
    /\ temp_file' = "absent"
    /\ pc' = "loop"

\* line 282-284: the call that finds the budget used up
UploadGiveUp ==
    /\ pc = "upload"
    /\ BudgetUsedUp(retry_count)
    /\ UploadFailed
    /\ UNCHANGED <<inputVars, outVars, linkVars, tagVars, idx, processed_count,
                   safe_name, retry_count, release, server_tags, created, called, attempts,
                   denied, last_fail>>

\* line 290-326: one upload request and what follows its answer
UploadAttempt ==
    /\ pc = "upload"
    /\ ~BudgetUsedUp(retry_count)
    /\ IF temp_file = "absent"
       THEN \* os.path.getsize at line 291 raises
            /\ pc' = "crashed"
            /\ UNCHANGED <<linkVars, failed_links, temp_file, retry_count, called,
                           attempts, last_fail>>
       ELSE /\ called' = called \cup { "upload" }
            /\ attempts' = attempts + 1
            /\ \E outcome \in UploadOutcomes :
                 CASE outcome = "201" ->
                        \* line 450-452 and the cleanup of line 464-468
                        /\ github_links' = AppendLink(github_links, AssetUrl(release))
                        /\ link_src' = Append(link_src, idx)
                        /\ temp_file' = "absent"
                        /\ pc' = "loop"
                        /\ last_fail' = None
                        /\ UNCHANGED <<failed_links, retry_count>>
                   [] UploadRetryStatus(outcome) \/ UploadException(outcome) ->
                        /\ retry_count' = retry_count + 1
                        /\ last_fail' = outcome
                        /\ UNCHANGED <<pc, linkVars, failed_links, temp_file>>
                   [] OTHER ->
                        /\ last_fail' = outcome
                        /\ UploadFailed
                        /\ UNCHANGED <<linkVars, retry_count>>
    /\ UNCHANGED <<inputVars, outVars, tagVars, idx, processed_count, safe_name,
                   release, server_tags, created, denied>>

(***************************************************************************)
(* process_drive_file: the rewrite of drive.txt and the summary            *)
(***************************************************************************)
\* line 473-476 and 529
WriteResults ==
    /\ pc = "loop"
    /\ idx = Len(lines)
    /\ drive_file' = github_links
    /\ successful' = Len(github_links)
                       - Cardinality({ i \in 1..Len(lines) : Contains(lines[i], "gh") })
    /\ pc' = "done"
    /\ UNCHANGED <<inputVars, linkVars, tagVars, idx, failed_links, processed_count,
                   safe_name, temp_file, retry_count, release, server_tags, created, called,
                   attempts, denied, last_fail>>

Next ==
    \/ Start
    \/ ProcessLine
    \/ GdownAttempt
    \/ GdownGiveUp
    \/ Fallback
    \/ CreateGiveUp
    \/ ListReleases
    \/ TagLoop
    \/ PostRelease
    \/ UploadGiveUp
    \/ UploadAttempt
    \/ WriteResults

Spec == Init /\ [][Next]_vars

(***************************************************************************)
(* Properties                                                              *)
(***************************************************************************)
Line(i) == strip(lines[i])

\* the lines the loop has classified as migratable (a Drive link)
Migratable(i) == IsDrive(Line(i))

\* the processing of line i is over: the loop has left it, or the run has
\* been aborted while it was being processed
Ended(i) == i < idx \/ (i = idx /\ pc \in { "loop", "done", "crashed" })

FailuresOf(i) == { k \in 1..Len(failed_links) : failed_links[k].src = i }
PublishedOf(i) == { k \in 1..Len(github_links) : link_src[k] = i /\ Migratable(i) }

InvalidReason == "Invalid Drive URL - Could not extract file ID"
DownloadReason == "Download Failed - Check if file is publicly accessible"
ReleaseReason == "GitHub Release Creation Failed"
UploadReason == "GitHub Upload Failed - File downloaded but upload error"

\* C1: every migratable line whose processing is over has exactly one outcome:
\* either its published URL is in github_links, or exactly one failure record
\* exists for it; never neither, never both.
C1_ExactlyOneOutcome ==
    \A i \in 1..Len(lines) :
        (Migratable(i) /\ Ended(i)) =>
            Cardinality(FailuresOf(i)) + Cardinality(PublishedOf(i)) = 1

\* what line i contributes to the link list; kept is the text under which an
\* already-migrated line is kept
Slot(i, kept) ==
    IF IsGithub(Line(i)) THEN << kept >>
    ELSE IF PublishedOf(i) # {} /\ FailuresOf(i) = {}
         THEN << github_links[CHOOSE k \in PublishedOf(i) : TRUE] >>
         ELSE << >>

RECURSIVE ExpectedList(_)
ExpectedList(n) ==
    IF n = 0 THEN << >> ELSE ExpectedList(n - 1) \o Slot(n, Line(n))

RECURSIVE ExpectedListRaw(_)
ExpectedListRaw(n) ==
    IF n = 0 THEN << >> ELSE ExpectedListRaw(n - 1) \o Slot(n, lines[n])

\* C2 (as claimed): the link list written at the end of the run is, in input
\* order, the already-migrated lines, each unchanged, interleaved with the URLs
\* published in this run at the place of their source line.
C2_WrittenListUnchanged ==
    pc = "done" => drive_file = ExpectedListRaw(Len(lines))

\* C2 (amended): the link list written at the end of the run is, in input
\* order, the already-migrated lines (each without its leading and trailing
\* whitespace and otherwise unchanged, once per occurrence) interleaved with
\* the URLs published in this run at the place of their source line; every
\* element is a link of the target system, and no line with a failure record
\* contributes an element.
C2_WrittenList ==
    pc = "done" =>
        /\ drive_file = ExpectedList(Len(lines))
        /\ \A k \in 1..Len(drive_file) : IsGithub(drive_file[k])
        /\ \A i \in 1..Len(lines) : FailuresOf(i) # {} => PublishedOf(i) = {}

\* a run that kept an already-migrated line and published a Drive link
C2_Witness ==
    /\ pc = "done"
    /\ Len(drive_file) = 2
    /\ \E i, j \in 1..Len(lines) :
         /\ IsGithub(Line(i)) /\ Line(i) # lines[i]
         /\ Migratable(j) /\ PublishedOf(j) # {}

\* a Drive link from which no identifier can be extracted
NoIdentifier(i) == Migratable(i) /\ ~Contains(Line(i), "id")

\* C3: a migratable line without an extractable identifier gets exactly one
\* failure record, with the invalid-URL reason, and no network call of any kind
\* is made for it.
C3_InvalidNoNetwork ==
    \A i \in 1..idx :
        NoIdentifier(i) =>
            /\ Cardinality(FailuresOf(i)) = 1
            /\ \A k \in FailuresOf(i) : failed_links[k].reason = InvalidReason
            /\ i = idx => called = {}

\* an invalid Drive link taken right after a link that was published
C3_Witness ==
    /\ idx = 2
    /\ pc = "loop"
    /\ NoIdentifier(2)
    /\ PublishedOf(1) # {}
    /\ FailuresOf(2) # {}

\* C4: each retried operation (primary download, release creation, asset
\* upload) sends at most 3 requests for an entry; once 3 requests have failed
\* the next call of the operation sends nothing and returns its failure result
\* (the download goes on to line 198, the two others to a failure record).
C4_RetryBudget ==
    [][ /\ attempts' <= 3
        /\ (attempts = 3 /\ pc \in { "gdown", "create", "upload" }) =>
              /\ attempts' = attempts
              /\ called' = called
              /\ pc = "gdown" => pc' \in { "fallback", "loop" }
              /\ pc # "gdown" =>
                    pc' = "loop" /\ Len(failed_links') = Len(failed_links) + 1
      ]_vars

\* the upload of an entry gave up after three requests
C4_Witness ==
    /\ pc = "loop"
    /\ attempts = 3
    /\ retry_count = 3
    /\ "upload" \in called
    /\ \E k \in FailuresOf(idx) : failed_links[k].reason = UploadReason

DownloadFailureRecorded ==
    /\ Cardinality(FailuresOf(idx)) = 1
    /\ \A k \in FailuresOf(idx) : failed_links[k].reason = DownloadReason

C7_TagNotExisting ==
    AtPost => tag_name \notin existing_tags

IsTimestampTag(tag) == tag # NoTag /\ tag[2] = Timestamp

\* C8 (as claimed): the submitted tag is the first candidate that is not in
\* the fetched list; the timestamp tag is chosen only when the base name and
\* all 10 random-suffixed candidates generated are in the list.
C8_TenCandidates ==
    AtPost =>
        /\ IsTimestampTag(tag_name) =>
              /\ Tag(safe_name, "") \in existing_tags
              /\ last_suffixed \in existing_tags
        /\ ~IsTimestampTag(tag_name) => tag_name \notin existing_tags

\* C8 (amended): the loop replaces a candidate only when it is in the fetched
\* list; it submits the base name or one of at most 9 random-suffixed
\* candidates as soon as one is not in the list; the timestamp tag is chosen
\* exactly when the base name and 9 random-suffixed candidates were in the
\* list, right after a 10th suffix was generated, which is never tested.
C8_NineCandidates ==
    [][ /\ (pc = "tagloop" /\ counter' = counter + 1) => tag_name \in existing_tags
        /\ AtPost' =>
              /\ IsTimestampTag(tag_name') <=> counter' = 11
              /\ ~IsTimestampTag(tag_name') =>
                    /\ tag_name' \notin existing_tags'
                    /\ counter' <= 10
                    /\ counter' = 1 <=> tag_name' = Tag(safe_name', "")
                    /\ counter' > 1 => tag_name' = last_suffixed'
              /\ IsTimestampTag(tag_name') =>
                    /\ Tag(safe_name', "") \in existing_tags'
                    /\ last_suffixed' # NoTag
      ]_vars

\* the timestamp tag was chosen although the 10th random candidate was free
C8_Witness ==
    /\ AtPost
    /\ IsTimestampTag(tag_name)
    /\ counter = 11
    /\ last_suffixed \notin existing_tags

\* C9 (as claimed): release creation is tried again only after a 5xx or 429
\* answer.
C9_RetryOnlyOnStatus ==
    (pc = "create" /\ retry_count >= 1) => last_fail \in { "5xx", "429" }

\* C9 (amended): release creation is tried again only after a 5xx or 429
\* answer or an exception of the creation request; any other failure status
\* ends the operation at once: the entry gets its release-creation failure
\* record and no further creation request is sent.
C9_RetryOnStatusOrException ==
    /\ (pc = "create" /\ retry_count >= 1) => last_fail \in { "5xx", "429", "error" }
    /\ (last_fail = "4xx" /\ "upload" \notin called) =>
          /\ pc \in { "loop", "done" }
          /\ \A k \in FailuresOf(idx) : failed_links[k].reason = ReleaseReason
          /\ Cardinality(FailuresOf(idx)) = 1

\* a creation request raised an exception and the creation is tried again
C9_Witness ==
    /\ pc = "create"
    /\ retry_count = 1
    /\ last_fail = "error"

\* C10 (as claimed): the upload is tried again only after a 5xx or 408 answer
\* or a timeout exception.
C10_RetryOnlyOnTimeout ==
    (pc = "upload" /\ retry_count >= 1) => last_fail \in { "5xx", "408", "timeout" }

\* C10 (amended): the upload is tried again only after a 5xx or 408 answer or
\* an exception of the upload request, timeout or not; any other failure
\* status ends the operation at once: the entry gets its upload failure record
\* and no further upload request is sent.
C10_RetryOnStatusOrException ==
    /\ (pc = "upload" /\ retry_count >= 1) =>
          last_fail \in { "5xx", "408", "timeout", "error" }
    /\ (last_fail = "4xx" /\ "upload" \in called) =>
          /\ pc \in { "loop", "done" }
          /\ \A k \in FailuresOf(idx) : failed_links[k].reason = UploadReason
          /\ Cardinality(FailuresOf(idx)) = 1

\* an upload request raised an exception other than a timeout and is tried again
C10_Witness ==
    /\ pc = "upload"
    /\ retry_count = 1
    /\ last_fail = "error"

\* C11: when the token or the repository name is missing the job stops before
\* the entry loop: no line is taken, no request is made and no failure record
\* is written.
C11_ConfigChecked ==
    (GITHUB_TOKEN = None \/ REPO_NAME = None) =>
        /\ pc \in { "start", "loop", "done", "returned" }
        /\ called = {}
        /\ failed_links = << >>

\* C12: an error that no component handles, raised while an entry is being
\* processed, becomes a failure record of that entry; the run is not aborted:
\* it goes on to the next line or to the rewrite of drive.txt.
C12_CaughtAtEntryBoundary ==
    pc = "crashed" =>
        /\ Cardinality(FailuresOf(idx)) = 1
        /\ ENABLED Next

\* the scheduling of the script: a single thread that runs until it returns
\* or is aborted
FairSpec == Spec /\ WF_vars(Next)

\* C13: every run that finds drive.txt ends with drive.txt rewritten (the
\* position "done" is entered only by the write of lines 473-476).
C13_EventuallyWritten ==
    (pc = "loop") ~> (pc = "done")

\* C14: an empty, whitespace-only or comment line adds no link and no failure
\* record, and is counted neither in processed_count nor in total_drive_links;
\* a foreign line adds no link and no failure record either.
C14_IgnoredNotCounted ==
    pc \notin { "start", "returned" } =>
        /\ \A i \in 1..Len(lines) :
              (Ended(i) /\ (IsIgnored(Line(i)) \/ IsForeign(Line(i)))) =>
                  /\ FailuresOf(i) = {}
                  /\ \A k \in 1..Len(link_src) : link_src[k] # i
        /\ processed_count =
              Cardinality({ i \in 1..idx : ~IsIgnored(Line(i)) /\ Migratable(i) })
        /\ total_drive_links =
              Cardinality({ i \in 1..Len(lines) :
                              ~IsIgnored(Line(i)) /\ Contains(Line(i), "drv") })

\* line 340 on a file written by lines 474-475: readlines gives every link
\* with the newline that was written after it
ReadLines(file) == [k \in 1..Len(file) |-> Append(file[k], "sp")]

\* line 353-370 on the lines read: the links the loop keeps, in order
RECURSIVE Kept(_)
Kept(read) ==
    IF read = << >> THEN << >>
    ELSE LET line == strip(Head(read))
         IN  IF line = << >> \/ startswith(line, "#") THEN Kept(Tail(read))
             ELSE IF Contains(line, "gh") \/ Contains(line, "ghu")
                  THEN << line >> \o Kept(Tail(read))
                  ELSE Kept(Tail(read))

\* C15: every line of the drive.txt a run has written is classified as
\* already migrated when it is read again, never as a Drive link, and a run on
\* that file keeps exactly the same list.
C15_ClassificationIdempotent ==
    pc = "done" =>
        /\ \A k \in 1..Len(drive_file) :
              LET line == strip(ReadLines(drive_file)[k])
              IN  IsGithub(line) /\ ~IsDrive(line) /\ ~IsForeign(line)
        /\ Kept(ReadLines(drive_file)) = drive_file

C15_Witness ==
    /\ pc = "done"
    /\ Len(drive_file) = 2
    /\ \E i \in 1..Len(lines) : Migratable(i) /\ PublishedOf(i) # {}
    /\ \E j \in 1..Len(lines) : Line(j) = <<"gh", "drv", "id">>

\* the releases of this run that line i has had created
CreatedFor(i) == { k \in 1..Len(created) : created[k].src = i }

\* C16: when a line taken earlier in the run has had a release created for the
\* same base name, the creation request is sent with the base name followed by
\* a random suffix; and no two releases created in the run carry the same tag.
C16_SecondGetsSuffix ==
    /\ AtPost =>
          \A k \in 1..Len(created) :
              (created[k].src < idx /\ created[k].tag[1] = safe_name) =>
                  \E suffix \in Suffixes : tag_name = Tag(safe_name, suffix)
    /\ \A k1, k2 \in 1..Len(created) :
          k1 # k2 => created[k1].tag # created[k2].tag

\* C18: the target system creates at most one release for each line, whatever
\* the creation requests of that line were answered with.
C18_AtMostOneRelease ==
    \A i \in 1..Len(lines) : Cardinality(CreatedFor(i)) <= 1

\* C17: the stages of an entry come in the order fetch, release creation,
\* upload: the release is requested only with the fetched file on disk, the
\* upload only with a created release, the reason of the entry's failure
\* record names the first stage that failed, and nothing is attempted for the
\* entry once its failure is recorded.
C17_StageOrder ==
    /\ pc \in { "create", "tagloop", "post" } =>
          temp_file = "data" /\ "download" \in called
    /\ pc = "upload" => release.id /\ "create" \in called
    /\ "list" \in called => "download" \in called
    /\ "create" \in called => "list" \in called
    /\ "upload" \in called => "create" \in called /\ release.id
    /\ FailuresOf(idx) # {} => pc \in { "loop", "done" }
    /\ \A k \in FailuresOf(idx) :
          /\ failed_links[k].reason = DownloadReason =>
                "download" \in called /\ called \cap { "list", "create", "upload" } = {}
          /\ failed_links[k].reason = ReleaseReason =>
                "list" \in called /\ "upload" \notin called /\ release = NoRelease
          /\ failed_links[k].reason = UploadReason =>
                "upload" \in called

C17_Witness ==
    /\ pc = "loop"
    /\ { "download", "list", "create", "upload" } \subseteq called
    /\ \E k \in FailuresOf(idx) : failed_links[k].reason = UploadReason

C20_SuccessfulCount ==
    pc = "done" =>
        /\ successful =
              Cardinality({ i \in 1..Len(lines) : Migratable(i) /\ PublishedOf(i) # {} })
        /\ successful + Len(failed_links) = processed_count

\* the tag of the release that create_unique_release returned for line i: the
\* last one the target system created for it
CreatedTagOf(i) ==
    created[CHOOSE k \in CreatedFor(i) : \A j \in CreatedFor(i) : j <= k].tag

\* C21: the release tag stored in the failure record of an upload failure is
\* the tag of the release that was created for that line, also when the base
\* tag collided and a suffixed tag was submitted.
C21_RecordedTagIsCreatedTag ==
    \A k \in 1..Len(failed_links) :
        failed_links[k].reason = UploadReason =>
            /\ CreatedFor(failed_links[k].src) # {}
            /\ failed_links[k].release_tag = CreatedTagOf(failed_links[k].src)

====
